---- MODULE Spec2Model ----
(***************************************************************************)
(* Model of the custom-component layer of oemof:                           *)
(*   oemof/solph/custom.py   DieselGenerator, DieselGeneratorBlock,        *)
(*                           custom_component_grouping                     *)
(*   oemof/outputlib/plot.py ViewPlot                                      *)
(*   tests/test_scripts/...  bus balances read back from solved models     *)
(* Each component has its own variables and its own specification; the     *)
(* variables of the other components stay at their idle values.            *)
(***************************************************************************)
EXTENDS Integers, Sequences, FiniteSets, TLC

VARIABLES
    \* custom_component_grouping
    nodes,              \* classes of the nodes handed to the grouping so far
    returned,           \* what custom_component_grouping returned for each
    \* DieselGeneratorBlock._create
    group,              \* the group argument: None or a list of generators
    fuel_input,         \* n.fuel_input.keys(), per generator, in dict order
    electrical_output,  \* n.electrical_output.keys(), per generator
    declared_inputs,    \* fuel buses also passed as inputs= (beyond the first)
    defect,             \* a flow of the model lacking status or nominal value
    relation,           \* block.relation: the (index, constraint) pairs added
    pc,                 \* position inside _create
    k,                  \* position of the build rule in its nested loops
    \* DieselGenerator.__init__
    fuel_curve_arg,     \* the fuel_curve argument: (key, value) pairs in dict order
    gen,                \* the attributes of the generator under construction
    fuel_bus_outputs,   \* outputs registered on the fuel bus: (bus, node) pairs
    pcF,                \* "new" before __init__ ran, "built" after
    \* ViewPlot
    seq,                \* self.seq: the columns of the node's sequences
    subset,             \* self.subset: its columns, in order
    call,               \* the last method call and its arguments
    ret,                \* what that call returned
    legend_kwargs,      \* self.legend_kwargs: its handles and labels
    ax,                 \* self.ax: the legend entries of the plot, the legend shown
    plotted,            \* the legend order stored by the last plot()
    \* solved model, as the tests read it back
    es,                 \* the energy system of the test being run
    sequences,          \* results: per flow, its value at every timestep solved
    sums                \* views.node(...)['sequences'].sum(axis=0)

None == "None"

varsG == <<nodes, returned>>
varsB == <<group, fuel_input, electrical_output, declared_inputs,
           defect, relation, pc, k>>
varsF == <<fuel_curve_arg, gen, fuel_bus_outputs, pcF>>
varsP == <<seq, subset, call, ret, legend_kwargs, ax, plotted>>
varsS == <<es, sequences, sums>>
vars == <<varsG, varsB, varsF, varsP, varsS>>

\* ---------------------------------------------------------------------------
\* Small helpers on sequences
\* ---------------------------------------------------------------------------

Range(s) == {s[j] : j \in DOMAIN s}

IsInjective(s) == \A a, b \in DOMAIN s : s[a] = s[b] => a = b

\* all lists without repetition over S, of length lo..hi
DistinctSeqs(S, lo, hi) ==
    {s \in UNION {[1..n -> S] : n \in lo..hi} : IsInjective(s)}

\* ---------------------------------------------------------------------------
\* custom_component_grouping                                custom.py 139-141
\* ---------------------------------------------------------------------------

MaxNodes == 3

Classes ==
    {"Bus", "Source", "Sink", "Transformer", "DieselGenerator", "UserDiesel"}

\* class DieselGenerator(Transformer); UserDiesel stands for a user's subclass
Superclass(c) ==
    CASE c = "UserDiesel"      -> "DieselGenerator"
      [] c = "DieselGenerator" -> "Transformer"
      [] c \in {"Transformer", "Bus", "Source", "Sink"} -> "Node"
      [] OTHER -> "object"

RECURSIVE Mro(_)
Mro(c) == IF c = "object" THEN {c} ELSE {c} \cup Mro(Superclass(c))

isinstance(c, target) == target \in Mro(c)

\* a grouping that tests type(node) is DieselGenerator instead of isinstance
grouping_by_exact_type(node) ==
    IF node = "DieselGenerator" THEN "DieselGeneratorBlock" ELSE None

custom_component_grouping(node) ==
    IF isinstance(node, "DieselGenerator")
    THEN "DieselGeneratorBlock"
    ELSE None

InitG == nodes = <<>> /\ returned = <<>>

\* The grouping is applied to one more node.
Group(cls) ==
    /\ Len(nodes) < MaxNodes
    /\ nodes' = Append(nodes, cls)
    /\ returned' = Append(returned, custom_component_grouping(cls))
    /\ UNCHANGED <<varsB, varsF, varsP, varsS>>

NextGrouping == \E cls \in Classes : Group(cls)

\* ---------------------------------------------------------------------------
\* DieselGeneratorBlock._create                              custom.py 96-132
\* ---------------------------------------------------------------------------

NumTimesteps == 2

\* group=None (the default of _create), and a model without defect
NoGroup == <<None>>
NoDefect == <<None>>

Gens == {"g1", "g2"}
FuelBuses == {"bgas", "boil"}
ElBuses == {"bel", "bel2"}

\* m.TIMESTEPS, in iteration order
TIMESTEPS == [j \in 1..NumTimesteps |-> j - 1]

IdleB ==
    /\ group = NoGroup
    /\ fuel_input = <<>>
    /\ electrical_output = <<>>
    /\ declared_inputs = FALSE
    /\ defect = NoDefect
    /\ relation = <<>>
    /\ pc = "idle"
    /\ k = 0

\* The generators as DieselGenerator.__init__ leaves them and the model m
\* around them: at least one fuel input (line 65 reads the first), any number
\* of electrical outputs, and at most one output flow that is not a complete
\* non-convex flow (no status variable, or no nominal value).
InitB ==
    /\ group \in {NoGroup} \cup DistinctSeqs(Gens, 0, Cardinality(Gens))
    /\ fuel_input \in [Gens -> DistinctSeqs(FuelBuses, 1, 2)]
    /\ electrical_output \in [Gens -> DistinctSeqs(ElBuses, 0, 2)]
    /\ declared_inputs \in BOOLEAN
    /\ defect \in {NoDefect} \cup
                 {<<w, f[1], f[2]>> : w \in {"status", "nominal_value"},
                                      f \in {<<"g1", "bel">>, <<"g2", "bel2">>}}
    /\ relation = <<>>
    /\ pc = "call"
    /\ k = 0

\* only the first fuel input, as __init__ reads it at line 65
first_in_flow(n) == <<fuel_input[n][1]>>

in_flows(n) == fuel_input[n]

out_flows(n) == electrical_output[n]

\* The flows m.flow is indexed by: __init__ registers the first fuel input
\* (lines 65-67) and every electrical output (line 69); further fuel inputs
\* are flows only when they were also passed as inputs=.
FLOWS ==
    {<<fuel_input[n][1], n>> : n \in Gens}
    \cup {f \in FuelBuses \X Gens :
               declared_inputs /\ f[1] \in Range(fuel_input[f[2]])}
    \cup UNION {{<<n, o>> : o \in Range(electrical_output[n])} : n \in Gens}

HasStatus(n, o) == <<n, o>> \in FLOWS /\ defect # <<"status", n, o>>

HasNominalValue(n, o) == <<n, o>> \in FLOWS /\ defect # <<"nominal_value", n, o>>

\* the try block of lines 121-125 raises (and line 127 re-raises ValueError)
Raises(n, i, o, t) ==
    \/ <<i, n>> \notin FLOWS
    \/ ~HasStatus(n, o)
    \/ ~HasNominalValue(n, o)

\* expressions over the model's variables and the generators' parameters
Flow(s, d, t) == [op |-> "flow", at |-> <<s, d, t>>]
Status(s, d, t) == [op |-> "status", at |-> <<s, d, t>>]
NominalValue(s, d) == [op |-> "nominal_value", at |-> <<s, d>>]
FuelCoeffA(n) == [op |-> "fuel_coeff_a", at |-> <<n>>]
FuelCoeffB(n) == [op |-> "fuel_coeff_b", at |-> <<n>>]
Bin(o, l, r) == [op |-> o, l |-> l, r |-> r]

\* a rule that reads the status of the first timestep at every timestep
relation_with_first_status(n, i, o, t) ==
    Bin("==",
        Bin("/",
            Bin("*",
                Bin("-", Flow(i, n, t),
                         Bin("*", FuelCoeffB(n), Status(n, o, TIMESTEPS[1]))),
                NominalValue(n, o)),
            FuelCoeffA(n)),
        Flow(n, o, t))

\* lines 122-125 and 130: lhs == rhs
input_output_relation(n, i, o, t) ==
    Bin("==",
        Bin("/",
            Bin("*",
                Bin("-", Flow(i, n, t),
                         Bin("*", FuelCoeffB(n), Status(n, o, t))),
                NominalValue(n, o)),
            FuelCoeffA(n)),
        Flow(n, o, t))

\* the loops of lines 117-120, innermost first
RECURSIVE ForOutputs(_, _, _, _)
ForOutputs(n, t, i, os) ==
    IF os = <<>> THEN <<>>
    ELSE << <<n, i, Head(os), t>> >> \o ForOutputs(n, t, i, Tail(os))

RECURSIVE ForInputs(_, _, _)
ForInputs(n, t, is) ==
    IF is = <<>> THEN <<>>
    ELSE ForOutputs(n, t, Head(is), out_flows(n)) \o ForInputs(n, t, Tail(is))

RECURSIVE ForTimesteps(_, _)
ForTimesteps(n, ts) ==
    IF ts = <<>> THEN <<>>
    ELSE ForInputs(n, Head(ts), in_flows(n)) \o ForTimesteps(n, Tail(ts))

RECURSIVE ForGroup(_)
ForGroup(g) ==
    IF g = <<>> THEN <<>>
    ELSE ForTimesteps(Head(g), TIMESTEPS) \o ForGroup(Tail(g))

\* the index tuples in the order the loops visit them
LoopOrder == ForGroup(group)

\* _create up to the BuildAction: lines 106-114
Create ==
    /\ pc = "call"
    /\ IF group = NoGroup
       THEN pc' = "returned" /\ UNCHANGED <<relation, k>>
       ELSE pc' = "rule" /\ relation' = <<>> /\ k' = 1
    /\ UNCHANGED <<group, fuel_input, electrical_output, declared_inputs,
                   defect>>
    /\ UNCHANGED <<varsG, varsF, varsP, varsS>>

\* one pass through the innermost loop body, lines 121-130
RuleStep ==
    /\ pc = "rule"
    /\ k <= Len(LoopOrder)
    /\ LET n == LoopOrder[k][1]
           i == LoopOrder[k][2]
           o == LoopOrder[k][3]
           t == LoopOrder[k][4]
       IN  IF Raises(n, i, o, t)
           THEN pc' = "ValueError" /\ UNCHANGED <<relation, k>>
           ELSE /\ relation' = Append(relation,
                                 <<LoopOrder[k], input_output_relation(n, i, o, t)>>)
                /\ k' = k + 1
                /\ pc' = pc
    /\ UNCHANGED <<group, fuel_input, electrical_output, declared_inputs,
                   defect>>
    /\ UNCHANGED <<varsG, varsF, varsP, varsS>>

\* the loops are exhausted: the rule and _create return
RuleDone ==
    /\ pc = "rule"
    /\ k > Len(LoopOrder)
    /\ pc' = "done"
    /\ UNCHANGED <<group, fuel_input, electrical_output, declared_inputs,
                   defect, relation, k>>
    /\ UNCHANGED <<varsG, varsF, varsP, varsS>>

NextBlock == Create \/ RuleStep \/ RuleDone

\* ---------------------------------------------------------------------------
\* DieselGenerator.__init__                                   custom.py 56-77
\* Operating points and consumption values are held in tenths, so 5 is the
\* operating point 0.5 and 38 the consumption 3.8; coefficients are exact
\* fractions <<numerator, denominator>> in lowest terms.
\* ---------------------------------------------------------------------------

MaxPoints == 3

OperatingPoints == {0, 2, 5, 10}
Consumptions == {20, 25, 30, 38}

NoGen ==
    [fuel_input |-> <<>>, electrical_output |-> <<>>, fuel_curve |-> <<>>,
     outputs |-> <<>>, fuel_coeff_a |-> <<0, 1>>, fuel_coeff_b |-> <<0, 1>>]

IdleF ==
    /\ fuel_curve_arg = <<>>
    /\ gen = NoGen
    /\ fuel_bus_outputs = {}
    /\ pcF = "idle"

\* a fuel curve has at least two operating points (a line is fitted), each
\* a distinct key of the dict
InitF ==
    /\ \E ks \in DistinctSeqs(OperatingPoints, 2, MaxPoints) :
         \E vs \in [DOMAIN ks -> Consumptions] :
            fuel_curve_arg = [j \in DOMAIN ks |-> <<ks[j], vs[j]>>]
    /\ gen = NoGen
    /\ fuel_bus_outputs = {}
    /\ pcF = "new"

Abs(x) == IF x < 0 THEN -x ELSE x

RECURSIVE GCD(_, _)
GCD(a, b) == IF b = 0 THEN Abs(a) ELSE GCD(b, a % b)

\* n/d in lowest terms with a positive denominator
Fraction(n, d) ==
    LET g == GCD(Abs(n), Abs(d))
        sgn == IF d < 0 THEN -1 ELSE 1
    IN  <<sgn * (n \div g), sgn * (d \div g)>>

RECURSIVE Insert(_, _)
Insert(x, s) ==
    IF s = <<>> THEN <<x>>
    ELSE IF x <= Head(s) THEN <<x>> \o s
    ELSE <<Head(s)>> \o Insert(x, Tail(s))

RECURSIVE sorted(_)
sorted(s) == IF s = <<>> THEN <<>> ELSE Insert(Head(s), sorted(Tail(s)))

\* float(k) of a key: the value itself
float(x) == x

\* int(v) of a value held in tenths: truncation towards zero
int(v) == IF v >= 0 THEN (v \div 10) * 10 ELSE -(((-v) \div 10) * 10)

keys(d) == [j \in DOMAIN d |-> d[j][1]]
values(d) == [j \in DOMAIN d |-> d[j][2]]

RECURSIVE SumSeq(_)
SumSeq(s) == IF s = <<>> THEN 0 ELSE Head(s) + SumSeq(Tail(s))

\* np.polyfit(x, y, 1): <<slope, intercept>> of the least-squares line
\* through the points (x[j], y[j])
polyfit1(x, y) ==
    LET n   == Len(x)
        sx  == SumSeq(x)
        sy  == SumSeq(y)
        sxx == SumSeq([j \in DOMAIN x |-> x[j] * x[j]])
        sxy == SumSeq([j \in DOMAIN x |-> x[j] * y[j]])
        den == n * sxx - sx * sx
    IN  <<Fraction(n * sxy - sx * sy, den),
          Fraction(sy * sxx - sx * sxy, 10 * den)>>

\* DieselGenerator(fuel_curve, fuel_input=..., electrical_output=...)
Construct(fi, eo) ==
    /\ pcF = "new"
    /\ LET fuel_curve == fuel_curve_arg
           fuel_bus == fi[1]
           x == sorted([j \in DOMAIN fuel_curve |-> float(keys(fuel_curve)[j])])
           y == sorted([j \in DOMAIN fuel_curve |-> int(values(fuel_curve)[j])])
           z == polyfit1(x, y)
       IN  /\ gen' = [fuel_input |-> fi, electrical_output |-> eo,
                      fuel_curve |-> fuel_curve, outputs |-> eo,
                      fuel_coeff_a |-> z[1], fuel_coeff_b |-> z[2]]
           /\ fuel_bus_outputs' = {<<fuel_bus, "self">>}
    /\ pcF' = "built"
    /\ UNCHANGED fuel_curve_arg
    /\ UNCHANGED <<varsG, varsB, varsP, varsS>>

NextFit ==
    \E fi \in DistinctSeqs(FuelBuses, 1, 2) :
        \E eo \in DistinctSeqs(ElBuses, 0, 2) : Construct(fi, eo)

\* ---------------------------------------------------------------------------
\* ViewPlot                                                   plot.py 27-247
\* A table is the list of its column labels; labels within a table are
\* distinct, as the flow columns of a results table are.
\* ---------------------------------------------------------------------------

Cols == {"c1", "c2", "c3"}
Tables == DistinctSeqs(Cols, 0, Cardinality(Cols))

\* df=None
NoDf == <<None>>

\* order lists: labels without repetition, among them one that is no column
Orders == DistinctSeqs(Cols \cup {"other"}, 0, Cardinality(Cols))

\* colour dictionaries: a colour for some of the labels
Palette == [c \in Cols |->
              CASE c = "c1" -> "red" [] c = "c2" -> "green" [] OTHER -> "blue"]
ColorDicts == {[c \in K |-> Palette[c]] : K \in SUBSET Cols}

NoCall == [method |-> None, colordict |-> <<>>, order |-> <<>>, df |-> NoDf,
           before |-> <<>>, reverse |-> FALSE]
NoRet == [kind |-> None, items |-> <<>>, missing |-> <<>>]
NoLegend == [has |-> FALSE, handles |-> <<>>, labels |-> <<>>]
NoAx == [exists |-> FALSE, entries |-> NoLegend, legend |-> NoLegend]

IdleP ==
    /\ seq = <<>>
    /\ subset = <<>>
    /\ call = NoCall
    /\ ret = NoRet
    /\ legend_kwargs = NoLegend
    /\ ax = NoAx
    /\ plotted = NoLegend

\* ViewPlot(results, node): lines 27-37 and update_node; the columns of the
\* node's sequences are whatever the results hold for it
InitP ==
    /\ seq \in Tables
    /\ subset = seq
    /\ call = NoCall
    /\ ret = NoRet
    /\ legend_kwargs = NoLegend
    /\ ax = NoAx
    /\ plotted = NoLegend

\* [x for x in xs if x in keep], a list comprehension with a membership filter
RECURSIVE Filter(_, _)
Filter(xs, keep) ==
    IF xs = <<>> THEN <<>>
    ELSE (IF Head(xs) \in keep THEN <<Head(xs)>> ELSE <<>>)
         \o Filter(Tail(xs), keep)

RECURSIVE Exclude(_, _)
Exclude(xs, drop) ==
    IF xs = <<>> THEN <<>>
    ELSE (IF Head(xs) \notin drop THEN <<Head(xs)>> ELSE <<>>)
         \o Exclude(Tail(xs), drop)

\* a rearrangement that keeps the table's own column order
neworder_in_table_order(order, cols) == Filter(cols, Range(order))

\* line 71
neworder(order, cols) == Filter(order, Range(cols))

\* line 72
missing(order, cols) == Exclude(cols, Range(order))

\* rearrange_subset(order, df): lines 65-79
RearrangeSubset(order, df) ==
    LET use_subset == df = NoDf
        table == IF use_subset THEN subset ELSE df
        cols == table
        result == neworder(order, cols)
    IN  /\ subset' = IF use_subset THEN result ELSE subset
        /\ ret' = [kind |-> "table", items |-> result,
                   missing |-> missing(order, cols)]
        /\ call' = [NoCall EXCEPT !.method = "rearrange_subset",
                                  !.order = order, !.df = df,
                                  !.before = subset]
        /\ UNCHANGED <<seq, legend_kwargs, ax, plotted>>
        /\ UNCHANGED <<varsG, varsB, varsF, varsS>>

\* colordict.get(c)
get(colordict, c) == IF c \in DOMAIN colordict THEN colordict[c] ELSE None

\* lines 101-103
tmplist(colordict, columns) ==
    LET got == [j \in DOMAIN columns |-> get(colordict, columns[j])]
    IN  [j \in DOMAIN got |-> IF got[j] = None THEN "#ff00f0" ELSE got[j]]

\* color_from_dict(colordict, df): lines 99-109; a single column yields the
\* colour itself, not a list
ColorFromDict(colordict, df) ==
    LET table == IF df = NoDf THEN subset ELSE df
        tmp == tmplist(colordict, table)
    IN  /\ ret' = IF Len(tmp) = 1
                  THEN [kind |-> "str", items |-> <<tmp[1]>>, missing |-> <<>>]
                  ELSE [kind |-> "list", items |-> tmp, missing |-> <<>>]
        /\ call' = [NoCall EXCEPT !.method = "color_from_dict",
                                  !.colordict = colordict, !.df = df,
                                  !.before = subset]
        /\ UNCHANGED <<seq, subset, legend_kwargs, ax, plotted>>
        /\ UNCHANGED <<varsG, varsB, varsF, varsS>>

\* the table passed as df is the node's sequence table (as io_plot passes
\* parts of it), or df is omitted
NextView ==
    \/ \E order \in Orders, df \in {NoDf, seq} : RearrangeSubset(order, df)
    \/ \E colordict \in ColorDicts, df \in {NoDf, seq} :
          ColorFromDict(colordict, df)

\* --- the legend: update_node, plot, slice_results, outside_legend ---

Reverse(s) == [j \in DOMAIN s |-> s[Len(s) + 1 - j]]

\* ax.get_legend_handles_labels() of a freshly plotted table: one artist per
\* column, labelled with the column, in column order
LegendOf(columns) ==
    [has |-> TRUE,
     handles |-> [j \in DOMAIN columns |-> <<"artist", columns[j]>>],
     labels |-> columns]

\* update_node(node): lines 40-48; columns are those the results hold for node
UpdateNode(columns) ==
    /\ seq' = columns
    /\ subset' = columns
    /\ legend_kwargs' = NoLegend
    /\ call' = [NoCall EXCEPT !.method = "update_node", !.before = subset]
    /\ ret' = NoRet
    /\ UNCHANGED <<ax, plotted>>
    /\ UNCHANGED <<varsG, varsB, varsF, varsS>>

\* slice_results(date_from, date_to): lines 222-227; rows of self.seq
SliceResults ==
    /\ subset' = seq
    /\ call' = [NoCall EXCEPT !.method = "slice_results", !.before = subset]
    /\ ret' = NoRet
    /\ UNCHANGED <<seq, legend_kwargs, ax, plotted>>
    /\ UNCHANGED <<varsG, varsB, varsF, varsS>>

\* plot(node): lines 239-247; pandas refuses to plot a table without columns
Plot(node) ==
    LET columns == IF node = NoDf THEN subset ELSE node
    IN  /\ columns # <<>>
        /\ seq' = IF node = NoDf THEN seq ELSE node
        /\ subset' = columns
        /\ ax' = [exists |-> TRUE, entries |-> LegendOf(columns),
                  legend |-> LegendOf(columns)]
        /\ legend_kwargs' = LegendOf(columns)
        /\ plotted' = LegendOf(columns)
        /\ call' = [NoCall EXCEPT !.method = "plot", !.before = subset]
        /\ ret' = [NoRet EXCEPT !.kind = "self"]
        /\ UNCHANGED <<varsG, varsB, varsF, varsS>>

\* outside_legend(reverse): lines 200-219; it needs an axis
OutsideLegend(reverse) ==
    /\ ax.exists
    /\ LET fetched == IF legend_kwargs.has THEN legend_kwargs ELSE ax.entries
           given == IF reverse
                    THEN [fetched EXCEPT !.handles = Reverse(fetched.handles),
                                         !.labels = Reverse(fetched.labels)]
                    ELSE fetched
       IN  /\ legend_kwargs' = given
           /\ ax' = [ax EXCEPT !.legend = given]
    /\ call' = [NoCall EXCEPT !.method = "outside_legend", !.reverse = reverse,
                              !.before = subset]
    /\ ret' = NoRet
    /\ UNCHANGED <<seq, subset, plotted>>
    /\ UNCHANGED <<varsG, varsB, varsF, varsS>>

NextLegend ==
    \/ \E columns \in Tables : UpdateNode(columns)
    \/ SliceResults
    \/ \E node \in {NoDf} \cup Tables : Plot(node)
    \/ \E reverse \in BOOLEAN : OutsideLegend(reverse)

\* ---------------------------------------------------------------------------
\* Solved models read back by the tests    test_generic_chp.py 28-82,
\*                                         test_variable_chp.py 50-121
\* The solver is any choice of flow values that satisfies the constraints of
\* the model; of these the bus balance is the one the tests read back.
\* ---------------------------------------------------------------------------

Horizon == 3
MaxFlow == 2

Systems == {"generic_chp", "variable_chp"}

\* flows into and out of the bus whose node view the test sums ('bth',
\* 'natural_gas'), as the test declares them
Inflows(sys) ==
    IF sys = "generic_chp"
    THEN {<<"combined_cycle_extraction_turbine", "bth">>, <<"source_th", "bth">>}
    ELSE {<<"rgas", "natural_gas">>}

Outflows(sys) ==
    IF sys = "generic_chp"
    THEN {<<"bth", "demand_th">>}
    ELSE {<<"natural_gas", "fixed_chp_gas">>, <<"natural_gas", "variable_chp_gas">>}

\* views.node(results, bus): the flows that touch the bus
NodeFlows(sys) == Inflows(sys) \cup Outflows(sys)

RECURSIVE SumOver(_, _)
SumOver(f, S) ==
    IF S = {} THEN 0
    ELSE LET e == CHOOSE x \in S : TRUE IN f[e] + SumOver(f, S \ {e})

\* a bus that lets surplus inflow vanish
balance_with_surplus(sys, v) == SumOver(v, Inflows(sys)) >= SumOver(v, Outflows(sys))

\* the bus constraint at one timestep: inflows equal outflows
balance(sys, v) == SumOver(v, Inflows(sys)) = SumOver(v, Outflows(sys))

NoSums == [done |-> FALSE, flow |-> <<>>]

IdleS ==
    /\ es = None
    /\ sequences = <<>>
    /\ sums = NoSums

InitS ==
    /\ es \in Systems
    /\ sequences = [e \in NodeFlows(es) |-> <<>>]
    /\ sums = NoSums

TimestepsSolved == Len(sequences[CHOOSE e \in NodeFlows(es) : TRUE])

\* om.solve(): the flow values of one more timestep
SolveTimestep(v) ==
    /\ ~sums.done
    /\ TimestepsSolved < Horizon
    /\ balance(es, v)
    /\ sequences' = [e \in NodeFlows(es) |-> Append(sequences[e], v[e])]
    /\ UNCHANGED <<es, sums>>
    /\ UNCHANGED <<varsG, varsB, varsF, varsP>>

\* views.node(results, bus)['sequences'].sum(axis=0).to_dict()
SumSequences ==
    /\ ~sums.done
    /\ TimestepsSolved = Horizon
    /\ sums' = [done |-> TRUE,
                flow |-> [e \in NodeFlows(es) |-> SumSeq(sequences[e])]]
    /\ UNCHANGED <<es, sequences>>
    /\ UNCHANGED <<varsG, varsB, varsF, varsP>>

NextSolve ==
    \/ \E v \in [NodeFlows(es) -> 0..MaxFlow] : SolveTimestep(v)
    \/ SumSequences

\* ---------------------------------------------------------------------------
\* Specifications, one per component
\* ---------------------------------------------------------------------------

InitGrouping == InitG /\ IdleB /\ IdleF /\ IdleP /\ IdleS
SpecGrouping == InitGrouping /\ [][NextGrouping]_vars

InitBlock == InitG /\ InitB /\ IdleF /\ IdleP /\ IdleS
SpecBlock == InitBlock /\ [][NextBlock]_vars

InitFit == InitG /\ IdleB /\ InitF /\ IdleP /\ IdleS
SpecFit == InitFit /\ [][NextFit]_vars

InitView == InitG /\ IdleB /\ IdleF /\ InitP /\ IdleS
SpecView == InitView /\ [][NextView]_vars

InitLegend == InitG /\ IdleB /\ IdleF /\ InitP /\ IdleS
SpecLegend == InitLegend /\ [][NextLegend]_vars

InitSolve == InitG /\ IdleB /\ IdleF /\ IdleP /\ InitS
SpecSolve == InitSolve /\ [][NextSolve]_vars

\* the classes whose instances are DieselGenerators
DieselClasses == {"DieselGenerator", "UserDiesel"}

\* C1: custom_component_grouping returns DieselGeneratorBlock for every node
\* that is a DieselGenerator or an instance of a subclass of it, and None for
\* every other node.
C1_Grouping ==
    /\ Len(returned) = Len(nodes)
    /\ \A j \in DOMAIN nodes :
         returned[j] = IF nodes[j] \in DieselClasses
                       THEN "DieselGeneratorBlock" ELSE None

C1_Witness ==
    \E a, b, c \in DOMAIN nodes :
        /\ nodes[a] = "UserDiesel" /\ returned[a] = "DieselGeneratorBlock"
        /\ nodes[b] = "DieselGenerator" /\ returned[b] = "DieselGeneratorBlock"
        /\ nodes[c] = "Transformer" /\ returned[c] = None

\* the indices added so far, the indices the group calls for, their number
RelationIndex == [j \in DOMAIN relation |-> relation[j][1]]

ExpectedIndex ==
    IF group = NoGroup THEN {}
    ELSE {x \in Gens \X FuelBuses \X ElBuses \X Range(TIMESTEPS) :
            /\ x[1] \in Range(group)
            /\ x[2] \in Range(fuel_input[x[1]])
            /\ x[3] \in Range(electrical_output[x[1]])}

RECURSIVE ExpectedCount(_)
ExpectedCount(g) ==
    IF g = <<>> THEN 0
    ELSE Len(fuel_input[Head(g)]) * Len(electrical_output[Head(g)])
           * Len(TIMESTEPS)
         + ExpectedCount(Tail(g))

ExpectedRelation(n, i, o, t) ==
    LET expr ==
          [op |-> "/",
           l  |-> [op |-> "*",
                   l  |-> [op |-> "-",
                           l  |-> [op |-> "flow", at |-> <<i, n, t>>],
                           r  |-> [op |-> "*",
                                   l  |-> [op |-> "fuel_coeff_b", at |-> <<n>>],
                                   r  |-> [op |-> "status", at |-> <<n, o, t>>]]],
                   r  |-> [op |-> "nominal_value", at |-> <<n, o>>]],
           r  |-> [op |-> "fuel_coeff_a", at |-> <<n>>]]
        out == [op |-> "flow", at |-> <<n, o, t>>]
    IN  {[op |-> "==", l |-> expr, r |-> out],
         [op |-> "==", l |-> out, r |-> expr]}

\* C3: every constraint added for (n, i, o, t) is the equality
\* flow[n,o,t] == (flow[i,n,t] - n.fuel_coeff_b * status[n,o,t])
\*                * nominal_value(n,o) / n.fuel_coeff_a
\* over n's own coefficients, the nominal value of n's flow to o and the
\* status of that flow at that timestep.
C3_RelationOfOwnFlow ==
    \A j \in DOMAIN relation :
        relation[j][2] \in ExpectedRelation(relation[j][1][1], relation[j][1][2],
                                            relation[j][1][3], relation[j][1][4])

C3_Witness ==
    /\ pc = "done"
    /\ Len(group) = 2
    /\ Len(fuel_input[group[2]]) = 2
    /\ Len(electrical_output[group[2]]) = 2
    /\ \E j \in DOMAIN relation :
         /\ relation[j][1] = <<group[2], fuel_input[group[2]][2],
                               electrical_output[group[2]][2], TIMESTEPS[2]>>
         /\ relation[j][2].r.at = <<group[2], electrical_output[group[2]][2],
                                    TIMESTEPS[2]>>

\* C4: fuel_coeff_a and fuel_coeff_b are the slope and the intercept of the
\* straight line fitted through the curve's own points, each operating point
\* paired with the consumption given for it, the value used as given.
C4_FitOfOwnPoints ==
    pcF = "built" =>
        LET own == polyfit1(keys(fuel_curve_arg), values(fuel_curve_arg))
        IN  gen.fuel_coeff_a = own[1] /\ gen.fuel_coeff_b = own[2]

\* the table the last call worked on
CalledOn == IF call.df = NoDf THEN call.before ELSE call.df

\* C5: color_from_dict returns a list with one colour per column of df (of
\* self.subset when df is omitted), in column order: the dictionary's colour
\* for a column that is a key, '#ff00f0' otherwise; for any number of columns.
C5_OneColourPerColumn ==
    call.method = "color_from_dict" =>
        /\ ret.kind = "list"
        /\ Len(ret.items) = Len(CalledOn)
        /\ \A j \in DOMAIN CalledOn :
             ret.items[j] = IF CalledOn[j] \in DOMAIN call.colordict
                            THEN call.colordict[CalledOn[j]]
                            ELSE "#ff00f0"

C7_ReverseOfPlotOrder ==
    call.method = "outside_legend" =>
        /\ ax.legend.labels =
             (IF call.reverse THEN Reverse(plotted.labels) ELSE plotted.labels)
        /\ ax.legend.handles =
             (IF call.reverse THEN Reverse(plotted.handles) ELSE plotted.handles)

====
